---------------------------- MODULE Spec2Model ----------------------------
(***************************************************************************)
(* A model of bsu_dates.BSUCalendar: the academic-calendar generator of    *)
(* src/__init__.py.  The constructor's per-year loop, the three lookup     *)
(* operations and the recurrence-rule factory are actions; the calendar    *)
(* arithmetic and the yearly recurrence rules are operators.               *)
(*                                                                         *)
(* A date is its proleptic Gregorian ordinal (date.toordinal(): day 1 is   *)
(* 0001-01-01), a timedelta a number of days.  rrule yields datetimes at   *)
(* midnight; they are modelled by their dates.  Python's None is None.     *)
(***************************************************************************)
EXTENDS Integers, Sequences, FiniteSets, TLC

VARIABLES
    start_year,   \* constructor argument
    end_year,     \* constructor argument (or now().year + 2)
    warned,       \* the "not validated prior to 2012" warning was logged
    iters,        \* the eight rule iterators of __init__: what each still yields
    dates,        \* self.dates: year -> (event name -> date)
    result        \* outcome of the last call made on the object

vars == <<start_year, end_year, warned, iters, dates, result>>

---------------------------------------------------------------------------
(* Bounds of the model *)

\* earliest start_year tried
MinStartYear == 2011
\* number of further start years tried
StartSpan == 3
\* largest number of academic years of one calendar
MaxYears == 3
\* length of the run of consecutive years asked of one rule (C4)
SampleYears == 20

---------------------------------------------------------------------------
(* Python values *)

None == -1

\* datetime.MAXYEAR: where rrule stops iterating
MAXYEAR == 9999

\* dateutil.rrule.YEARLY
YEARLY == 0

\* weekday numbers of datetime / dateutil (MO = 0 .. SU = 6)
MO(n) == [weekday |-> 0, n |-> n]
TH(n) == [weekday |-> 3, n |-> n]

---------------------------------------------------------------------------
(* datetime.date *)

IsLeap(y) == (y % 4 = 0) /\ ((y % 100 # 0) \/ (y % 400 = 0))

DaysInMonth(y, m) ==
    IF m = 2 THEN (IF IsLeap(y) THEN 29 ELSE 28)
    ELSE IF m \in {4, 6, 9, 11} THEN 30 ELSE 31

DaysBeforeYear(y) ==
    LET p == y - 1 IN 365 * p + (p \div 4) - (p \div 100) + (p \div 400)

\* days of a common year before the first of each month
CommonDaysBeforeMonth ==
    <<0, 31, 59, 90, 120, 151, 181, 212, 243, 273, 304, 334>>

DaysBeforeMonth(y, m) ==
    CommonDaysBeforeMonth[m] + (IF m > 2 /\ IsLeap(y) THEN 1 ELSE 0)

\* datetime.date(y, m, d)
date(y, m, d) == DaysBeforeYear(y) + DaysBeforeMonth(y, m) + d

\* date.year, date.month, date.day, date.weekday()
Year(o) ==
    CHOOSE y \in (o \div 366) .. (o \div 365) + 1 :
        DaysBeforeYear(y) < o /\ o <= DaysBeforeYear(y + 1)

Month(o) ==
    LET y == Year(o)
    IN  CHOOSE m \in 1 .. 12 :
            /\ date(y, m, 1) <= o
            /\ o <= date(y, m, DaysInMonth(y, m))

Day(o) == o - date(Year(o), Month(o), 1) + 1

Weekday(o) == (o + 6) % 7

\* datetime.timedelta(days=..., weeks=...)
timedelta(days, weeks) == days + 7 * weeks

---------------------------------------------------------------------------
(* dateutil.rrule.rrule(YEARLY, bymonth=, byweekday= | bymonthday=,        *)
(* dtstart=, until=, count=)                                               *)

\* the days of month m of year y that fall on weekday wd, in order
WeekdaysOfMonth(y, m, wd) ==
    LET day1  == date(y, m, 1)
        first == 1 + ((wd - Weekday(day1)) % 7)
        n     == ((DaysInMonth(y, m) - first) \div 7) + 1
    IN  [i \in 1 .. n |-> day1 + (first - 1) + 7 * (i - 1)]

\* the occurrences of the rule within year y (none when the n-th weekday
\* does not exist)
Occurrences(kw, y) ==
    IF "byweekday" \in DOMAIN kw
    THEN LET days == WeekdaysOfMonth(y, kw.bymonth, kw.byweekday.weekday)
             n    == kw.byweekday.n
             i    == IF n > 0 THEN n ELSE Len(days) + 1 + n
         IN  IF i \in 1 .. Len(days) THEN {days[i]} ELSE {}
    ELSE IF kw.bymonthday \in 1 .. DaysInMonth(y, kw.bymonth)
         THEN {date(y, kw.bymonth, kw.bymonthday)}
         ELSE {}

Get(kw, key) == IF key \in DOMAIN kw THEN kw[key] ELSE None

\* what iterating the rule yields from year y on, with `left` of count left
RECURSIVE Iterate(_, _, _)
Iterate(kw, y, left) ==
    IF y > MAXYEAR \/ left = 0 THEN <<>>
    ELSE LET occ == Occurrences(kw, y)
         IN  IF occ = {} THEN Iterate(kw, y + 1, left)
             ELSE LET d == CHOOSE o \in occ : TRUE
                  IN  IF Get(kw, "until") # None /\ d > kw.until THEN <<>>
                      ELSE IF d < kw.dtstart THEN Iterate(kw, y + 1, left)
                      ELSE <<d>> \o Iterate(kw, y + 1,
                                      IF left = None THEN None ELSE left - 1)

rrule(kw) == Iterate(kw, Year(kw.dtstart), Get(kw, "count"))


---------------------------------------------------------------------------
(* Outcomes of a call *)

Return(v) == [kind |-> "return", value |-> v]
Raise(e, msg) == [kind |-> "raise", exc |-> e, msg |-> msg]

---------------------------------------------------------------------------
(* BSUCalendar._irule and the rule methods *)

\* kwargs without the entries whose value is None (line 220; only dtstart,
\* until and count are ever None)
DropNone(kw) ==
    LET keep == {k \in DOMAIN kw :
                    k \notin {"dtstart", "until", "count"} \/ kw[k] # None}
    IN  [k \in keep |-> kw[k]]

_irule(kwargs) ==
    IF "freq" \notin DOMAIN kwargs
    THEN Raise("AssertionError", "Must have freq argument")
    ELSE LET kw == DropNone(kwargs)
         IN  IF ~("until" \in DOMAIN kw \/ "count" \in DOMAIN kw)
             THEN IF "until" \in DOMAIN kw /\ "count" \in DOMAIN kw
                  THEN Raise("ValueError", "Specify either count or until, not both")
                  ELSE Raise("ValueError", "Must specify either count or until.")
             ELSE Return(rrule(kw))

_thanksgiving(dtstart, until, count) ==
    _irule([freq |-> YEARLY, bymonth |-> 11, byweekday |-> TH(4),
            dtstart |-> dtstart, until |-> until, count |-> count])

_labor_day(dtstart, until, count) ==
    _irule([freq |-> YEARLY, bymonth |-> 9, byweekday |-> MO(1),
            dtstart |-> dtstart, until |-> until, count |-> count])

_mlk_day(dtstart, until, count) ==
    _irule([freq |-> YEARLY, bymonth |-> 1, byweekday |-> MO(3),
            dtstart |-> dtstart, until |-> until, count |-> count])

_memorial_day(dtstart, until, count) ==
    _irule([freq |-> YEARLY, bymonth |-> 3, byweekday |-> MO(-1),
            dtstart |-> dtstart, until |-> until, count |-> count])

_independence_day(dtstart, until, count) ==
    _irule([freq |-> YEARLY, bymonth |-> 7, bymonthday |-> 4,
            dtstart |-> dtstart, until |-> until, count |-> count])

_fall_start(dtstart, until, count) ==
    _irule([freq |-> YEARLY, bymonth |-> 8, byweekday |-> MO(-2),
            dtstart |-> dtstart, until |-> until, count |-> count])

_fall_break_start(dtstart, until, count) ==
    _irule([freq |-> YEARLY, bymonth |-> 10, byweekday |-> MO(-2),
            dtstart |-> dtstart, until |-> until, count |-> count])

_spring_withdraw_deadline(dtstart, until, count) ==
    _irule([freq |-> YEARLY, bymonth |-> 3, byweekday |-> MO(3),
            dtstart |-> dtstart, until |-> until, count |-> count])

\* the rule methods by attribute name
RuleMethods ==
    {"_thanksgiving", "_labor_day", "_mlk_day", "_memorial_day",
     "_independence_day", "_fall_start", "_fall_break_start",
     "_spring_withdraw_deadline"}

\* getattr(self, name)(dtstart=dtstart, until=until, count=count)
CallRule(name, dtstart, until, count) ==
    CASE name = "_thanksgiving" -> _thanksgiving(dtstart, until, count)
      [] name = "_labor_day" -> _labor_day(dtstart, until, count)
      [] name = "_mlk_day" -> _mlk_day(dtstart, until, count)
      [] name = "_memorial_day" -> _memorial_day(dtstart, until, count)
      [] name = "_independence_day" -> _independence_day(dtstart, until, count)
      [] name = "_fall_start" -> _fall_start(dtstart, until, count)
      [] name = "_fall_break_start" -> _fall_break_start(dtstart, until, count)
      [] name = "_spring_withdraw_deadline" ->
             _spring_withdraw_deadline(dtstart, until, count)

---------------------------------------------------------------------------
(* BSUCalendar.__init__ *)

semesters == <<"Fall", "Spring", "Summer">>

sem_code_to_int == [Fall |-> 10, Spring |-> 20, Summer |-> 30]

holidays ==
    <<"Thanksgiving Break", "Labor Day", "MLK Day", "Memorial Day",
      "Independence Day">>

tags ==
    [Registration |-> <<"Late Registration Start", "Late Registration End",
                        "Withdraw Deadline">>,
     Instruction  |-> <<"Classes Start", "Classes End", "Break Start",
                        "Break End", "Finals Start", "Finals End",
                        "Final Grades Due">>,
     Holidays     |-> holidays]

\* a faulty term_length, one day short; C8 tells it from term_length
term_length_short == timedelta(115, 0)

term_length == timedelta(116, 0)
sum_term_length == timedelta(68, 0)
xmas_break == timedelta(24, 0)

\* a faulty min_date, January 1 instead of August 1; C10 tells it from
\* min_date
min_date_january(sy) == date(sy, 1, 1)

min_date(sy) == date(sy, 8, 1)
max_date(ey) == date(ey, 8, 1)

\* self.years, self.n_yrs
years(sy, ey) ==
    [i \in 1 .. (Year(max_date(ey)) - Year(min_date(sy))) |->
        Year(min_date(sy)) + i - 1]
n_yrs(sy, ey) == Len(years(sy, ey))

_add_days(d, days) == d + days

\* the iterators of lines 74-83, each as the dates it will yield
Generators(sy, ey) ==
    [name \in RuleMethods |->
        CallRule(name, min_date(sy), None, n_yrs(sy, ey)).value]

\* the academic years already stored
Done == DOMAIN dates
Constructed == Cardinality(Done) = n_yrs(start_year, end_year)

\* spring break starts 9 weeks into the spring term of 2013, else 8
sp_break_weeks(yr) == IF yr = 2013 THEN 9 ELSE 8

\* one pass of the loop body of lines 89-149 for year yr, drawing from its
\* iterators it
YrDates(yr, it) ==
    LET f_start == Head(it["_fall_start"])
        f_end == f_start + term_length
        f_break_start == Head(it["_fall_break_start"])
        f_break_end == _add_days(f_break_start, 1)
        f_withdraw_end == _add_days(f_break_end, 1)
        f_thank_break_start == _add_days(Head(it["_thanksgiving"]), -1)
        f_thank_break_end == _add_days(f_thank_break_start, 2)
        sp_start == _add_days(f_end, xmas_break)
        sp_end == _add_days(sp_start, term_length)
        sp_break_start == sp_start + timedelta(0, sp_break_weeks(yr))
        sm_start == _add_days(sp_end, 10)
        sm_end == _add_days(sp_start, sum_term_length)
    IN  ("Fall Term Start" :> f_start)
     @@ ("Fall Classes Start" :> f_start)
     @@ ("Fall Late Registration Start" :> f_start)
     @@ ("Fall Late Registration End" :> _add_days(f_start, 4))
     @@ ("Fall Break Start" :> f_break_start)
     @@ ("Fall Break End" :> f_break_end)
     @@ ("Fall Withdraw Deadline" :> f_withdraw_end)
     @@ ("Thanksgiving Break Start" :> f_thank_break_start)
     @@ ("Thanksgiving Break End" :> f_thank_break_end)
     @@ ("Labor Day" :> Head(it["_labor_day"]))
     @@ ("Fall Classes End" :> _add_days(f_end, -4))
     @@ ("Fall Finals Start" :> _add_days(f_end, -3))
     @@ ("Fall Finals End" :> f_end)
     @@ ("Fall Term End" :> f_end)
     @@ ("Fall Final Grades Due" :> _add_days(f_end, 3))
     @@ ("Spring Term Start" :> sp_start)
     @@ ("Spring Classes Start" :> sp_start)
     @@ ("Spring Break Start" :> sp_break_start)
     @@ ("Spring Break End" :> _add_days(sp_break_start, 4))
     @@ ("Spring Withdraw Deadline" :> Head(it["_spring_withdraw_deadline"]))
     @@ ("Spring Classes End" :> _add_days(sp_end, -4))
     @@ ("Spring Finals Start" :> _add_days(sp_end, -3))
     @@ ("Spring Finals End" :> sp_end)
     @@ ("Spring Term End" :> sp_end)
     @@ ("Spring Final Grades Due" :> _add_days(sp_end, 3))
     @@ ("Summer Term Start" :> sm_start)
     @@ ("Independenc Day" :> Head(it["_independence_day"]))
     @@ ("Summer Term End" :> sm_end)
     @@ ("Summer Final Grades Due" :> _add_days(sm_end, 3))

\* the iterators the loop body draws from (mlk_day and memorial_day are
\* created and never drawn from)
Drawn ==
    {"_fall_start", "_fall_break_start", "_thanksgiving", "_labor_day",
     "_spring_withdraw_deadline", "_independence_day"}

StartYears == MinStartYear .. MinStartYear + StartSpan

Init ==
    /\ start_year \in StartYears
    /\ end_year \in start_year + 1 .. start_year + MaxYears
    /\ warned = (start_year < 2012)
    /\ iters = Generators(start_year, end_year)
    /\ dates = <<>>
    /\ result = [op |-> "__init__"]

\* for yr in self.years: one pass of the loop body
ForYr ==
    /\ ~Constructed
    /\ LET yr == years(start_year, end_year)[Cardinality(Done) + 1]
       IN  /\ dates' = (yr :> YrDates(yr, iters)) @@ dates
           /\ iters' = [name \in RuleMethods |->
                           IF name \in Drawn THEN Tail(iters[name])
                           ELSE iters[name]]
    /\ UNCHANGED <<start_year, end_year, warned, result>>


---------------------------------------------------------------------------
(* str: a string argument is a sequence of characters where the code takes *)
(* it apart, and is joined into a string where the code compares it        *)

UpperCase == <<"A", "B", "C", "D", "E", "F", "G", "H", "I", "J", "K", "L", "M",
               "N", "O", "P", "Q", "R", "S", "T", "U", "V", "W", "X", "Y", "Z">>
LowerCase == <<"a", "b", "c", "d", "e", "f", "g", "h", "i", "j", "k", "l", "m",
               "n", "o", "p", "q", "r", "s", "t", "u", "v", "w", "x", "y", "z">>

\* str.lower()
lower(cs) ==
    [i \in 1 .. Len(cs) |->
        IF \E j \in 1 .. 26 : UpperCase[j] = cs[i]
        THEN LowerCase[CHOOSE j \in 1 .. 26 : UpperCase[j] = cs[i]]
        ELSE cs[i]]

\* str.replace(old, new) for a one-character old
replace(cs, old, new) ==
    [i \in 1 .. Len(cs) |-> IF cs[i] = old THEN new ELSE cs[i]]

RECURSIVE Join(_)
Join(cs) == IF cs = <<>> THEN "" ELSE Head(cs) \o Join(Tail(cs))

Digits == <<"0", "1", "2", "3", "4", "5", "6", "7", "8", "9">>

\* str(n) for n >= 0
RECURSIVE str(_)
str(n) ==
    IF n < 10 THEN <<Digits[n + 1]>>
    ELSE str(n \div 10) \o <<Digits[(n % 10) + 1]>>

\* int(s) for a string of decimal digits
RECURSIVE int(_)
int(cs) ==
    IF cs = <<>> THEN 0
    ELSE 10 * int(SubSeq(cs, 1, Len(cs) - 1))
         + (CHOOSE v \in 0 .. 9 : Digits[v + 1] = cs[Len(cs)])

\* round(n, -2) of an int: to the nearest hundred, a tie to the even one
round2(n) ==
    LET q == n \div 100
        r == n % 100
    IN  IF r < 50 THEN 100 * q
        ELSE IF r > 50 THEN 100 * (q + 1)
        ELSE IF q % 2 = 0 THEN 100 * q ELSE 100 * (q + 1)

---------------------------------------------------------------------------
(* BSUCalendar.date_in_term *)

\* a term argument is [str |-> FALSE, v |-> int] or [str |-> TRUE, v |-> chars]
date_in_term(term, field) ==
    LET t == IF term.str THEN int(term.v) ELSE term.v
        yr == round2(t) \div 100
    IN  IF yr \notin DOMAIN dates THEN Raise("KeyError", "yr")
        ELSE IF field \notin DOMAIN dates[yr] THEN Raise("KeyError", "field")
        ELSE Return(dates[yr][field])

---------------------------------------------------------------------------
(* BSUCalendar.get_holiday *)

\* the attributes of a BSUCalendar whose names start with an underscore and
\* that are no rule method: none takes dtstart= and count=
OtherAttributes ==
    {"_set_logger", "_add_days", "_logger", "__init__", "__dict__",
     "__class__"}

ShiftedHolidays == {"MLK Day", "Memorial Day", "Independence Day"}

\* a faulty holiday_year that shifts no holiday to the following calendar
\* year; C3 tells it from holiday_year
holiday_year_unshifted(holiday, ac_year) == ac_year

holiday_year(holiday, ac_year) ==
    IF Join(holiday) \in ShiftedHolidays THEN ac_year + 1 ELSE ac_year

get_holiday(holiday, ac_year) ==
    LET attr_name == "_" \o Join(replace(lower(holiday), " ", "_"))
        dtstart == date(holiday_year(holiday, ac_year), 1, 1)
    IN  IF attr_name \in RuleMethods
        THEN LET gen == CallRule(attr_name, dtstart, None, 1)
             IN  IF gen.kind = "raise" THEN gen
                 ELSE IF gen.value = <<>>
                 THEN Raise("IndexError", "list index out of range")
                 ELSE Return(gen.value[1])
        ELSE IF attr_name = "_irule"
        THEN _irule([dtstart |-> dtstart, count |-> 1])
        ELSE IF attr_name \in OtherAttributes
        THEN Raise("TypeError", "cannot be called with dtstart and count")
        ELSE Raise("ValueError", "Holiday not recognized")

---------------------------------------------------------------------------
(* BSUCalendar.dates_by_tag *)

\* the names bound at module level (lines 1-9)
ModuleGlobals ==
    {"dateutil", "holidays", "logging", "datetime", "pd", "rrule",
     "BSUCalendar"}

\* line 160 reads the name term, which is neither a parameter nor a local
\* nor a module global; line 161 would call the dict int_to_sem_code
dates_by_tag(tag) ==
    IF "term" \notin ModuleGlobals
    THEN Raise("NameError", "name 'term' is not defined")
    ELSE Raise("TypeError", "'dict' object is not callable")

---------------------------------------------------------------------------
(* The calls made on a constructed calendar *)

HolidayNames ==
    {<<"T", "h", "a", "n", "k", "s", "g", "i", "v", "i", "n", "g">>,
     <<"L", "a", "b", "o", "r", " ", "D", "a", "y">>,
     <<"M", "L", "K", " ", "D", "a", "y">>,
     <<"M", "e", "m", "o", "r", "i", "a", "l", " ", "D", "a", "y">>,
     <<"I", "n", "d", "e", "p", "e", "n", "d", "e", "n", "c", "e", " ",
       "D", "a", "y">>,
     <<"T", "h", "a", "n", "k", "s", "g", "i", "v", "i", "n", "g", " ",
       "B", "r", "e", "a", "k">>,
     <<"m", "l", "k", " ", "d", "a", "y">>,
     <<"F", "a", "l", "l", " ", "S", "t", "a", "r", "t">>,
     <<"C", "h", "r", "i", "s", "t", "m", "a", "s">>,
     <<"i", "r", "u", "l", "e">>,
     <<"a", "d", "d", " ", "d", "a", "y", "s">>}

TagNames == {"Registration", "Instruction", "Holidays", "Exams", ""}

FieldNames == {"Classes Start", "Fall Classes Start", "Summer Term End"}

\* the first and last year of the calendar and the years just outside it
QueryYears == {start_year - 1, start_year, end_year - 1, end_year}

\* term codes, year * 100 + semester: the semesters 10, 20, 30 and a code
\* no semester has
TermCodes == {y * 100 + sem : y \in QueryYears, sem \in {10, 20, 30, 60}}

\* a term code is given as an int, or as a string
Terms ==
    [str : {FALSE}, v : TermCodes]
    \cup {[str |-> TRUE, v |-> str(y * 100 + 10)] : y \in QueryYears}

AcademicYears == {start_year, end_year}

DateInTerm ==
    /\ Constructed
    /\ \E term \in Terms, field \in FieldNames :
           result' = [op |-> "date_in_term", term |-> term, field |-> field,
                      out |-> date_in_term(term, field)]
    /\ UNCHANGED <<start_year, end_year, warned, iters, dates>>

DatesByTag ==
    /\ Constructed
    /\ \E tag \in TagNames :
           result' = [op |-> "dates_by_tag", tag |-> tag,
                      out |-> dates_by_tag(tag)]
    /\ UNCHANGED <<start_year, end_year, warned, iters, dates>>

GetHoliday ==
    /\ Constructed
    /\ \E holiday \in HolidayNames, ac_year \in AcademicYears :
           result' = [op |-> "get_holiday", holiday |-> Join(holiday),
                      ac_year |-> ac_year,
                      out |-> get_holiday(holiday, ac_year)]
    /\ UNCHANGED <<start_year, end_year, warned, iters, dates>>

\* a rule method called directly, with nothing, one or both of until and
\* count
RuleRequest ==
    /\ Constructed
    /\ \E name \in RuleMethods,
          dtstart \in {date(start_year, 1, 1), date(start_year, 8, 1)},
          until \in {None, date(end_year, 12, 31)},
          count \in {None, SampleYears} :
           result' = [op |-> "rule", name |-> name, dtstart |-> dtstart,
                      until |-> until, count |-> count,
                      out |-> CallRule(name, dtstart, until, count)]
    /\ UNCHANGED <<start_year, end_year, warned, iters, dates>>

Next == ForYr \/ DateInTerm \/ DatesByTag \/ GetHoliday \/ RuleRequest

Spec == Init /\ [][Next]_vars

---------------------------------------------------------------------------
(* Properties *)

\* the value of a term argument
TermValue(term) == IF term.str THEN int(term.v) ELSE term.v

\* d is the n-th weekday wd from the end of month m of year y
IsNthLast(d, y, m, wd, n) ==
    /\ Year(d) = y /\ Month(d) = m /\ Weekday(d) = wd
    /\ Month(d + 7 * (n - 1)) = m
    /\ Month(d + 7 * n) # m

TagFields(tag) == {tags[tag][i] : i \in 1 .. Len(tags[tag])}

\* the canonical fields of one academic year: every Registration and
\* Instruction field of Fall and of Spring, and the holidays
CanonicalFields ==
    {sem \o " " \o fld :
        sem \in {"Fall", "Spring"},
        fld \in TagFields("Registration") \cup TagFields("Instruction")}
    \cup {"Thanksgiving Break Start", "Thanksgiving Break End", "Labor Day",
          "MLK Day", "Memorial Day", "Independence Day"}

\* C1: every academic year stored by the constructor has every canonical
\* field: the Registration and Instruction fields of Fall and Spring and an
\* entry for each of the five holidays.
C1_CanonicalFieldsStored ==
    \A Y \in DOMAIN dates : CanonicalFields \subseteq DOMAIN dates[Y]

\* C2: date_in_term(Y * 100 + 10, "Classes Start") returns the fall start
\* of academic year Y, for every academic year Y of the calendar.
C2_FallClassesStartInTerm ==
    (/\ result.op = "date_in_term"
     /\ result.field = "Classes Start"
     /\ TermValue(result.term) % 100 = sem_code_to_int["Fall"]
     /\ TermValue(result.term) \div 100 \in DOMAIN dates)
    => result.out =
           Return(dates[TermValue(result.term) \div 100]["Fall Term Start"])

\* C3: get_holiday returns a date of January, March and July of calendar
\* year A + 1 for MLK Day, Memorial Day and Independence Day, and a date
\* of November and September of calendar year A for Thanksgiving and Labor
\* Day, A being the academic year asked for.
C3_HolidayYearShift ==
    result.op = "get_holiday" =>
        LET A == result.ac_year
            Lands(y, m) ==
                /\ result.out.kind = "return"
                /\ Year(result.out.value) = y
                /\ Month(result.out.value) = m
        IN  /\ result.holiday = "MLK Day" => Lands(A + 1, 1)
            /\ result.holiday = "Memorial Day" => Lands(A + 1, 3)
            /\ result.holiday = "Independence Day" => Lands(A + 1, 7)
            /\ result.holiday = "Thanksgiving" => Lands(A, 11)
            /\ result.holiday = "Labor Day" => Lands(A, 9)

\* C3 witness: get_holiday("MLK Day", A) has returned a date of the year
\* after A.
C3_Witness ==
    /\ result.op = "get_holiday"
    /\ result.holiday = "MLK Day"
    /\ result.out.kind = "return"
    /\ Year(result.out.value) = result.ac_year + 1
    /\ Month(result.out.value) = 1

\* C4: over a run of consecutive years (20 in the claim) the Thanksgiving
\* rule yields, for each year of the run, a Thursday of November after
\* which no Thursday of that November follows.
C4_ThanksgivingLastThursday ==
    (/\ result.op = "rule"
     /\ result.name = "_thanksgiving"
     /\ result.count = SampleYears
     /\ result.until = None)
    => /\ result.out.kind = "return"
       /\ Len(result.out.value) = SampleYears
       /\ \A i \in 1 .. SampleYears :
              IsNthLast(result.out.value[i], Year(result.dtstart) + i - 1,
                        11, 3, 1)

\* the names that denote a holiday rule
HolidayRuleNames ==
    {"Thanksgiving", "Labor Day", "MLK Day", "Memorial Day",
     "Independence Day"}

\* C5: a lookup with an unrecognized name raises its error: dates_by_tag
\* with a tag that is none of the three tags raises the invalid-tag error
\* (a ValueError), and get_holiday with a name that denotes no holiday rule
\* raises the unrecognized-holiday error (a ValueError).
C5_UnrecognizedNameRaises ==
    /\ (result.op = "dates_by_tag" /\ result.tag \notin DOMAIN tags)
           => (result.out.kind = "raise" /\ result.out.exc = "ValueError")
    /\ (result.op = "get_holiday" /\ result.holiday \notin HolidayRuleNames)
           => (result.out.kind = "raise" /\ result.out.exc = "ValueError")

\* C6: a rule request is rejected with a ValueError exactly when neither or
\* both of count and until are given, and yields an iterator when exactly
\* one is given.
C6_RuleRequestRejectedIffMalformed ==
    result.op = "rule" =>
        LET neither == result.until = None /\ result.count = None
            both == result.until # None /\ result.count # None
            rejected == result.out.kind = "raise"
                        /\ result.out.exc = "ValueError"
        IN  /\ rejected <=> (neither \/ both)
            /\ ~(neither \/ both) => result.out.kind = "return"

\* C7: dates_by_tag("Holidays") returns a mapping with the keys
\* "Thanksgiving Break Start" and "Thanksgiving Break End", 2 days apart,
\* and a date for each of Labor Day, MLK Day, Memorial Day and Independence
\* Day.
C7_HolidaysByTag ==
    (result.op = "dates_by_tag" /\ result.tag = "Holidays")
    => /\ result.out.kind = "return"
       /\ {"Thanksgiving Break Start", "Thanksgiving Break End", "Labor Day",
           "MLK Day", "Memorial Day", "Independence Day"}
              \subseteq DOMAIN result.out.value
       /\ result.out.value["Thanksgiving Break End"]
              - result.out.value["Thanksgiving Break Start"] = 2

\* C8: in every stored academic year Y the fall term and the spring term
\* each end 116 days after they start, the fall term starts on the
\* second-to-last Monday of August of Y and the spring term starts 24 days
\* after the fall term ends.
C8_TermLengths ==
    \A Y \in DOMAIN dates :
        /\ dates[Y]["Fall Term End"] - dates[Y]["Fall Term Start"] = 116
        /\ dates[Y]["Spring Term End"] - dates[Y]["Spring Term Start"] = 116
        /\ IsNthLast(dates[Y]["Fall Term Start"], Y, 8, 0, 2)
        /\ dates[Y]["Spring Term Start"] = dates[Y]["Fall Term End"] + 24

\* C8 witness: the constructor has finished a calendar of two or more
\* years, the last of them with both terms 116 days long.
C8_Witness ==
    /\ Constructed
    /\ end_year - start_year >= 2
    /\ LET Y == end_year - 1
       IN  /\ dates[Y]["Fall Term End"] = dates[Y]["Fall Term Start"] + 116
           /\ dates[Y]["Spring Term End"]
                  = dates[Y]["Fall Term Start"] + 116 + 24 + 116

\* C9: in every stored academic year each of the three terms starts no
\* later than it ends, the fall term ends before the spring term starts and
\* the spring term ends before the summer term starts.
C9_TermsOrdered ==
    \A Y \in DOMAIN dates :
        /\ \A i \in 1 .. Len(semesters) :
               dates[Y][semesters[i] \o " Term Start"]
                   <= dates[Y][semesters[i] \o " Term End"]
        /\ dates[Y]["Fall Term End"] < dates[Y]["Spring Term Start"]
        /\ dates[Y]["Spring Term End"] < dates[Y]["Summer Term Start"]

Thanksgiving == <<"T", "h", "a", "n", "k", "s", "g", "i", "v", "i", "n", "g">>
LaborDay == <<"L", "a", "b", "o", "r", " ", "D", "a", "y">>
IndependenceDay ==
    <<"I", "n", "d", "e", "p", "e", "n", "d", "e", "n", "c", "e", " ",
      "D", "a", "y">>

InMonth(d, y, m) == Year(d) = y /\ Month(d) = m

\* C10: after k passes of the constructor's loop the years start_year ..
\* start_year + k - 1 are stored and each iterator the loop draws from has
\* given k dates; the dates stored for the k-th year Y are those of Y: fall
\* start in August, fall break in October, Labor Day in September and
\* Thanksgiving in November of Y, the spring withdraw deadline in March of
\* Y + 1 and Independence Day on July 4 of Y + 1 (stored under the key the
\* constructor writes); and the stored Labor Day, Thanksgiving and
\* Independence Day are what get_holiday returns for academic year Y.
C10_DrawsAlignedWithYears ==
    LET k == Cardinality(Done)
        n == end_year - start_year
    IN  /\ Done = start_year .. start_year + k - 1
        /\ \A name \in Drawn : Len(iters[name]) = n - k
        /\ \A Y \in Done :
            LET d == dates[Y]
                thanksgiving == d["Thanksgiving Break Start"] + 1
            IN  /\ InMonth(d["Fall Term Start"], Y, 8)
                /\ InMonth(d["Fall Break Start"], Y, 10)
                /\ InMonth(d["Labor Day"], Y, 9)
                /\ InMonth(thanksgiving, Y, 11)
                /\ InMonth(d["Spring Withdraw Deadline"], Y + 1, 3)
                /\ d["Independenc Day"] = date(Y + 1, 7, 4)
                /\ get_holiday(LaborDay, Y) = Return(d["Labor Day"])
                /\ get_holiday(Thanksgiving, Y) = Return(thanksgiving)
                /\ get_holiday(IndependenceDay, Y)
                       = Return(d["Independenc Day"])

\* C10 witness: the loop has made its second pass and has stored, for the
\* second academic year, a spring withdraw deadline and an Independence
\* Day of the calendar year after it.
C10_Witness ==
    /\ Cardinality(Done) >= 2
    /\ LET Y == start_year + 1
       IN  /\ Year(dates[Y]["Spring Withdraw Deadline"]) = Y + 1
           /\ dates[Y]["Independenc Day"] = date(Y + 1, 7, 4)
           /\ Len(iters["_independence_day"]) = end_year - start_year - 2

=============================================================================
